---------------------------- MODULE Spec2Model ----------------------------
(***************************************************************************)
(* A model of the PLONK prover core (ProveRaw and its helpers).            *)
(* The helpers evaluateCosets and shiftZ and the hint decomposeScalarG1    *)
(* are also run on their own, under SpecHelpers.                           *)
(*                                                                         *)
(* Scale.  The prover works over the scalar field of bn254 and a domain of *)
(* 2^k rows.  The model keeps every formula of the code and runs it over   *)
(* the prime field of Modulus elements, which has a subgroup of order      *)
(* 8 * Cardinality, with Cardinality rows.  Vectors are functions on       *)
(* 0..n-1, as the slices of the code are.                                  *)
(***************************************************************************)
EXTENDS Integers, Sequences, FiniteSets, TLC

\* fr.Element: the field of the polynomials (scaled).
Modulus == 97

\* publicData.DomainNum.Cardinality: the number of rows m (scaled).
DomainSize == 4

\* The largest value of a witness entry that Init draws.
MaxVal == 1

-----------------------------------------------------------------------------
(* fr.Element arithmetic *)

Add(a, b) == (a + b) % Modulus

Sub(a, b) == (a - b + Modulus) % Modulus

Mul(a, b) == (a * b) % Modulus

Neg(a) == (Modulus - a) % Modulus

RECURSIVE Exp(_, _)
Exp(a, e) ==
    IF e = 0 THEN 1
    ELSE LET hf == Exp(a, e \div 2)
             sq == Mul(hf, hf)
         IN  IF e % 2 = 1 THEN Mul(sq, a) ELSE sq

\* Element.Inverse: the inverse of 0 is 0.
Inverse(a) == Exp(a, Modulus - 2)

\* Element.Div(x, y) = x * Inverse(y); no error on y = 0.
Div(a, b) == Mul(a, Inverse(b))

\* Element.SetBytes: the bytes as an integer, reduced.
SetBytes(b) == b % Modulus

-----------------------------------------------------------------------------
(* Slices *)

Size(p) == Cardinality(DOMAIN p)

\* a Go slice literal
Arr(s) == [i \in 0..(Len(s) - 1) |-> s[i + 1]]

\* copy(dst, src), dst freshly made with n elements
CopyInto(n, src) == [i \in 0..(n - 1) |-> IF i \in DOMAIN src THEN src[i] ELSE 0]

\* Polynomial.Eval: Horner, canonical basis
RECURSIVE EvalFrom(_, _, _)
EvalFrom(p, x, i) ==
    IF i >= Size(p) THEN 0
    ELSE Add(p[i], Mul(x, EvalFrom(p, x, i + 1)))

Eval(p, x) == EvalFrom(p, x, 0)

-----------------------------------------------------------------------------
(* fft.Domain *)

RECURSIVE Log2(_)
Log2(n) == IF n <= 1 THEN 0 ELSE 1 + Log2(n \div 2)

RECURSIVE RevBits(_, _)
RevBits(i, nbits) ==
    IF nbits = 0 THEN 0
    ELSE (i % 2) * (2 ^ (nbits - 1)) + RevBits(i \div 2, nbits - 1)

\* fft.BitReverse(a)
BitReverse(a) ==
    LET n == Size(a)
    IN  [i \in 0..(n - 1) |-> a[RevBits(i, Log2(n))]]

\* the transform sum_j a[j] root^(j k), in natural order
RECURSIVE DFTSum(_, _, _, _)
DFTSum(a, root, k, j) ==
    IF j >= Size(a) THEN 0
    ELSE Add(Mul(a[j], Exp(root, (j * k) % (Modulus - 1))), DFTSum(a, root, k, j + 1))

DFT(a, root) == [k \in 0..(Size(a) - 1) |-> DFTSum(a, root, k, 0)]

\* domain.FFT(a, fft.DIF, coset): a[j] is scaled by FinerGenerator^(coset j),
\* the output is in bit-reversed order.
FFT(domain, a, coset) ==
    LET scaled == [j \in DOMAIN a |->
                     Mul(a[j], Exp(domain.FinerGenerator, coset * j))]
    IN  BitReverse(DFT(scaled, domain.Generator))

\* domain.FFTInverse(a, fft.DIF, coset): output in bit-reversed order, scaled
\* by CardinalityInv and by the inverse coset table at the reversed index.
FFTInverse(domain, a, coset) ==
    LET n    == Size(a)
        y    == BitReverse(DFT(a, Inverse(domain.Generator)))
        cinv == Inverse(domain.Cardinality % Modulus)
        finv == Inverse(domain.FinerGenerator)
    IN  [i \in 0..(n - 1) |->
           Mul(Mul(y[i], Exp(finv, coset * RevBits(i, Log2(n)))), cinv)]

\* fft.NewDomain(m, depth, ...): Generator of order m, FinerGenerator of
\* order 2^depth m, both powers of one root of unity of the field.
PrimitiveRoot == CHOOSE g \in 2..(Modulus - 1) :
                    \A d \in 1..(Modulus - 2) : Exp(g, d) # 1

NewDomain(m, depth) ==
    [Cardinality    |-> m,
     Generator      |-> Exp(PrimitiveRoot, (Modulus - 1) \div m),
     FinerGenerator |-> Exp(PrimitiveRoot, (Modulus - 1) \div ((2 ^ depth) * m))]


-----------------------------------------------------------------------------
(* The helpers of ProveRaw *)

\* WireColumn with the padding loop left out
WireColumnNoPadding(spr, s, solution, wire) ==
    LET nPub == spr.NbPublicVariables
        nC   == Size(spr.Constraints)
        nA   == Size(spr.Assertions)
        Row(i) == IF i < nPub + nC THEN spr.Constraints[i - nPub]
                  ELSE spr.Assertions[i - nPub - nC]
    IN  [i \in 0..(s - 1) |->
           IF i < nPub THEN (IF wire = "L" THEN solution[i] ELSE solution[0])
           ELSE IF i < nPub + nC + nA THEN solution[Row(i)[wire]]
           ELSE 0]

\* One of l, r, o of ComputeLRO (wire is "L", "R" or "O").
\* Rows: [ placeholders | constraints | assertions | padding ].
WireColumn(spr, s, solution, wire) ==
    LET nPub == spr.NbPublicVariables
        nC   == Size(spr.Constraints)
        nA   == Size(spr.Assertions)
        Row(i) == IF i < nPub + nC THEN spr.Constraints[i - nPub]
                  ELSE spr.Assertions[i - nPub - nC]
    IN  [i \in 0..(s - 1) |->
           IF i < nPub THEN (IF wire = "L" THEN solution[i] ELSE solution[0])
           ELSE IF i < nPub + nC + nA THEN solution[Row(i)[wire]]
           ELSE solution[0]]

\* PartialColumn assigned on the placeholder rows too
PartialColumnAllRows(spr, l) == l

\* partialL of ComputeLRO: assigned from l on every row but the placeholders
PartialColumn(spr, l) ==
    [i \in DOMAIN l |-> IF i < spr.NbPublicVariables THEN 0 ELSE l[i]]

\* ComputeLRO: the solution as l, r, o and partialL, in Lagrange form.
ComputeLRO(spr, publicData, solution) ==
    LET s == publicData.DomainNum.Cardinality
        l == WireColumn(spr, s, solution, "L")
    IN  [l |-> l,
         r |-> WireColumn(spr, s, solution, "R"),
         o |-> WireColumn(spr, s, solution, "O"),
         partialL |-> PartialColumn(spr, l)]

\* RunningPowers never multiplied by the generator
RunningPowersStale(publicData, i) ==
    <<1, publicData.Shifter[0], publicData.Shifter[1]>>

\* The running powers u[0], u[1], u[2] of ComputeZ at the start of step i.
RECURSIVE RunningPowers(_, _)
RunningPowers(publicData, i) ==
    IF i = 0 THEN <<1, publicData.Shifter[0], publicData.Shifter[1]>>
    ELSE LET u == RunningPowers(publicData, i - 1)
             w == publicData.DomainNum.Generator
         IN  <<Mul(u[1], w), Mul(u[2], w), Mul(u[3], w)>>

\* f[0] f[1] f[2] of ComputeZ at step i
ZNumerator(l, r, o, publicData, gamma, i) ==
    LET u == RunningPowers(publicData, i)
    IN  Mul(Mul(Add(Add(l[i], u[1]), gamma), Add(Add(r[i], u[2]), gamma)),
            Add(Add(o[i], u[3]), gamma))

\* g[0] g[1] g[2] of ComputeZ at step i
ZDenominator(l, r, o, publicData, gamma, i) ==
    Mul(Mul(Add(Add(l[i], publicData.LS1[i]), gamma),
            Add(Add(r[i], publicData.LS2[i]), gamma)),
        Add(Add(o[i], publicData.LS3[i]), gamma))

\* z[i] of ComputeZ
RECURSIVE ZAt(_, _, _, _, _, _)
ZAt(l, r, o, publicData, gamma, i) ==
    IF i = 0 THEN 1
    ELSE Div(Mul(ZAt(l, r, o, publicData, gamma, i - 1),
                 ZNumerator(l, r, o, publicData, gamma, i - 1)),
             ZDenominator(l, r, o, publicData, gamma, i - 1))

\* ComputeZ: the permutation accumulator, in Lagrange form.  It has no error
\* result.
ComputeZ(l, r, o, publicData, gamma) ==
    [i \in 0..(publicData.DomainNum.Cardinality - 1) |->
        ZAt(l, r, o, publicData, gamma, i)]

\* evaluateCosets with evaluations[0] the slice poly itself, not a copy
evaluateCosetsInPlace(poly, domain) ==
    LET evaluations ==
            [j \in 0..3 |->
               BitReverse(FFT(domain, CopyInto(domain.Cardinality, poly), 2 * j + 1))]
    IN  [res  |-> [k \in 0..(4 * domain.Cardinality - 1) |->
                     evaluations[k % 4][k \div 4]],
         poly |-> evaluations[0]]

\* evaluateCosets on the cosets 1, 2, 3, 4 in place of 1, 3, 5, 7
evaluateCosetsConsecutive(poly, domain) ==
    LET evaluations ==
            [j \in 0..3 |->
               BitReverse(FFT(domain, CopyInto(domain.Cardinality, poly), j + 1))]
    IN  [res  |-> [k \in 0..(4 * domain.Cardinality - 1) |->
                     evaluations[k % 4][k \div 4]],
         poly |-> poly]

\* evaluateCosets(poly, res, domain): what it leaves in res, and in poly.
\* The four transforms run on copies of poly.
evaluateCosets(poly, domain) ==
    LET evaluations ==
            [j \in 0..3 |->
               BitReverse(FFT(domain, CopyInto(domain.Cardinality, poly), 2 * j + 1))]
    IN  [res  |-> [k \in 0..(4 * domain.Cardinality - 1) |->
                     evaluations[k % 4][k \div 4]],
         poly |-> poly]

\* evalConstraints: ql.l + qr.r + qm.l.r + qo.o + k on the odd cosets; the
\* selectors go through evaluateCosets, so publicData is returned as left.
evalConstraints(publicData, evalL, evalR, evalO) ==
    LET d  == publicData.DomainNum
        eQl == evaluateCosets(publicData.Ql, d)
        eQr == evaluateCosets(publicData.Qr, d)
        eQm == evaluateCosets(publicData.Qm, d)
        eQo == evaluateCosets(publicData.Qo, d)
        eQk == evaluateCosets(publicData.Qk, d)
    IN  [res |-> [i \in 0..(4 * d.Cardinality - 1) |->
                    Add(Add(Add(Add(Mul(eQl.res[i], evalL[i]),
                                    Mul(eQr.res[i], evalR[i])),
                                Mul(Mul(eQm.res[i], evalL[i]), evalR[i])),
                            Mul(eQo.res[i], evalO[i])),
                        eQk.res[i])],
         publicData |-> [publicData EXCEPT !.Ql = eQl.poly, !.Qr = eQr.poly,
                                           !.Qm = eQm.poly, !.Qo = eQo.poly,
                                           !.Qk = eQk.poly]]

\* id[4 i] before the coset offsets: Generator^i, by repeated multiplication
RECURSIVE IdPower(_, _)
IdPower(publicData, i) ==
    IF i = 0 THEN 1
    ELSE Mul(IdPower(publicData, i - 1), publicData.DomainNum.Generator)

\* evalIDCosets: id, shifter[0] id, shifter[1] id on the odd cosets
evalIDCosets(publicData) ==
    LET d  == publicData.DomainNum
        uu == Mul(d.FinerGenerator, d.FinerGenerator)
        u0 == d.FinerGenerator
        u1 == Mul(u0, uu)
        u2 == Mul(u1, uu)
        u3 == Mul(u2, uu)
        u  == <<u0, u1, u2, u3>>
        id == [k \in 0..(4 * d.Cardinality - 1) |->
                 Mul(IdPower(publicData, k \div 4), u[(k % 4) + 1])]
    IN  [id   |-> id,
         uid  |-> [k \in DOMAIN id |-> Mul(id[k], publicData.Shifter[0])],
         uuid |-> [k \in DOMAIN id |-> Mul(id[k], publicData.Shifter[1])]]

\* evalConstraintOrdering: Z(uX) g1 g2 g3 - Z(X) f1 f2 f3 on the odd cosets
evalConstraintOrdering(publicData, evalZ, evalZu, evalL, evalR, evalO, gamma) ==
    LET d   == publicData.DomainNum
        eS1 == evaluateCosets(publicData.CS1, d)
        eS2 == evaluateCosets(publicData.CS2, d)
        eS3 == evaluateCosets(publicData.CS3, d)
        ids == evalIDCosets(publicData)
        f(i) == Mul(Mul(Mul(Add(Add(evalL[i], ids.id[i]), gamma),
                            Add(Add(evalR[i], ids.uid[i]), gamma)),
                        Add(Add(evalO[i], ids.uuid[i]), gamma)),
                    evalZ[i])
        g(i) == Mul(Mul(Mul(Add(Add(evalL[i], eS1.res[i]), gamma),
                            Add(Add(evalR[i], eS2.res[i]), gamma)),
                        Add(Add(evalO[i], eS3.res[i]), gamma)),
                    evalZu[i])
    IN  [res |-> [i \in 0..(4 * d.Cardinality - 1) |-> Sub(g(i), f(i))],
         publicData |-> [publicData EXCEPT !.CS1 = eS1.poly, !.CS2 = eS2.poly,
                                           !.CS3 = eS3.poly]]

\* evalStartsAtOne: L1 (z - 1) on the odd cosets
evalStartsAtOne(publicData, evalZ) ==
    LET d == publicData.DomainNum
        lOneLagrange == [i \in 0..(d.Cardinality - 1) |-> IF i = 0 THEN 1 ELSE 0]
        lOne == BitReverse(FFTInverse(d, lOneLagrange, 0))
        res  == evaluateCosets(lOne, d).res
    IN  [i \in 0..(4 * d.Cardinality - 1) |-> Mul(Sub(evalZ[i], 1), res[i])]

\* shiftZ with the last entry of the copy left as it was
shiftZNoWrap(z) ==
    LET n   == Size(z)
        res == CopyInto(n, z)
    IN  [res |-> [i \in 0..(n - 1) |-> IF i < n - 1 THEN res[i + 1] ELSE res[i]],
         z   |-> z]

\* shiftZ: z to z(uX), both in Lagrange form.  The shift runs on res, a copy
\* of z: the result is what it returns and what it leaves in z.
shiftZ(z) ==
    LET n   == Size(z)
        res == CopyInto(n, z)
        buf == res[0]
    IN  [res |-> [i \in 0..(n - 1) |-> IF i < n - 1 THEN res[i + 1] ELSE buf],
         z   |-> z]

\* computeH: h in canonical form, split as h1 + X^m h2 + X^2m h3; h[3m..4m)
\* is dropped.
computeH(publicData, constraintsInd, constraintOrdering, startsAtOne, alpha) ==
    LET d  == publicData.DomainNum
        m  == d.Cardinality
        uu == Mul(d.FinerGenerator, d.FinerGenerator)
        u0 == d.FinerGenerator
        u1 == Mul(u0, uu)
        u2 == Mul(u1, uu)
        u3 == Mul(u2, uu)
        VanishInv(x) == Inverse(Sub(Exp(x, m), 1))
        u  == <<VanishInv(u0), VanishInv(u1), VanishInv(u2), VanishInv(u3)>>
        hEval == [i \in 0..(4 * m - 1) |->
                    Mul(Add(Mul(Add(Mul(startsAtOne[i], alpha),
                                    constraintOrdering[i]), alpha),
                            constraintsInd[i]),
                        u[(i % 4) + 1])]
        h  == BitReverse(FFTInverse(publicData.DomainH,
                                    CopyInto(publicData.DomainH.Cardinality, hEval), 1))
    IN  [h1 |-> [i \in 0..(m - 1) |-> h[i]],
         h2 |-> [i \in 0..(m - 1) |-> h[m + i]],
         h3 |-> [i \in 0..(m - 1) |-> h[2 * m + i]]]

-----------------------------------------------------------------------------
(* SetupRaw: the public data of a circuit.  [ placeholders | constraints |  *)
(* assertions | padding ]; a placeholder row is -PUB_INPUT_i + qk_i = 0.     *)

\* wire ID at position i of l || r || o
WireID(spr, m, i) ==
    LET nPub == spr.NbPublicVariables
        nC   == Size(spr.Constraints)
        nA   == Size(spr.Assertions)
        row  == i % m
        Row  == IF row < nPub + nC THEN spr.Constraints[row - nPub]
                ELSE spr.Assertions[row - nPub - nC]
    IN  IF row < nPub THEN (IF i < m THEN row ELSE 0)
        ELSE IF row >= nPub + nC + nA THEN 0
        ELSE IF i < m THEN Row.L ELSE IF i < 2 * m THEN Row.R ELSE Row.O

\* buildPermutation: position i goes to the previous position holding the
\* same wire, the first one to the last one.
Permutation(spr, m) ==
    [i \in 0..(3 * m - 1) |->
        LET same   == {j \in 0..(3 * m - 1) : WireID(spr, m, j) = WireID(spr, m, i)}
            before == {j \in same : j < i}
        IN  IF before # {} THEN CHOOSE j \in before : \A k \in before : k <= j
            ELSE CHOOSE j \in same : \A k \in same : k <= j]

\* a selector in Lagrange form
SelectorRows(spr, m, publicWitness, name) ==
    LET nPub == spr.NbPublicVariables
        nC   == Size(spr.Constraints)
        nA   == Size(spr.Assertions)
    IN  [i \in 0..(m - 1) |->
           IF i < nPub
           THEN (IF name = "ql" THEN Neg(1)
                 ELSE IF name = "qk" THEN publicWitness[i] ELSE 0)
           ELSE IF i < nPub + nC THEN spr.Constraints[i - nPub][name]
           ELSE IF i < nPub + nC + nA THEN spr.Assertions[i - nPub - nC][name]
           ELSE 0]

SetupRaw(spr, publicWitness) ==
    LET m    == DomainSize
        d    == NewDomain(m, 3)
        nu   == d.FinerGenerator
        perm == Permutation(spr, m)
        sID  == [i \in 0..(3 * m - 1) |->
                   Mul(Exp(d.Generator, i % m),
                       IF i < m THEN 1 ELSE IF i < 2 * m THEN nu ELSE Mul(nu, nu))]
        Canonical(p) == BitReverse(FFTInverse(d, p, 0))
        LS1 == [i \in 0..(m - 1) |-> sID[perm[i]]]
        LS2 == [i \in 0..(m - 1) |-> sID[perm[m + i]]]
        LS3 == [i \in 0..(m - 1) |-> sID[perm[2 * m + i]]]
    IN  [DomainNum |-> d,
         DomainH   |-> NewDomain(4 * m, 1),
         Shifter   |-> Arr(<<nu, Mul(nu, nu)>>),
         Ql  |-> Canonical(SelectorRows(spr, m, publicWitness, "ql")),
         Qr  |-> Canonical(SelectorRows(spr, m, publicWitness, "qr")),
         Qm  |-> Canonical(SelectorRows(spr, m, publicWitness, "qm")),
         Qo  |-> Canonical(SelectorRows(spr, m, publicWitness, "qo")),
         Qk  |-> Canonical(SelectorRows(spr, m, publicWitness, "qk")),
         LS1 |-> LS1, LS2 |-> LS2, LS3 |-> LS3,
         CS1 |-> Canonical(LS1), CS2 |-> Canonical(LS2), CS3 |-> Canonical(LS3)]

\* a row of a SparseR1CS: the wires L, R, O and the coefficients
Gate(L, R, O, ql, qr, qm, qo, qk) ==
    [L |-> L, R |-> R, O |-> O,
     ql |-> ql % Modulus, qr |-> qr % Modulus, qm |-> qm % Modulus,
     qo |-> qo % Modulus, qk |-> qk % Modulus]

MinusOne == Modulus - 1

\* The circuits Init draws from, each with the public witness of its setup.
\*   CircuitA: x0 public; x1 x1 = x2; x2 x0 = x1; one padding row
\*   CircuitB: x0, x1 public; x1 + x2 = x1; assertion x2 x1 = 0; no padding
\*   CircuitC: no public variable; x0 x1 = x1; assertion x0 = 1; two padding rows
CircuitA ==
    [NbPublicVariables |-> 1, NbVariables |-> 3,
     Constraints |-> Arr(<<Gate(1, 1, 2, 0, 0, 1, MinusOne, 0),
                           Gate(2, 0, 1, 0, 0, 1, MinusOne, 0)>>),
     Assertions  |-> Arr(<<>>),
     Public      |-> Arr(<<1>>)]

CircuitB ==
    [NbPublicVariables |-> 2, NbVariables |-> 3,
     Constraints |-> Arr(<<Gate(1, 2, 1, 1, 1, 0, MinusOne, 0)>>),
     Assertions  |-> Arr(<<Gate(2, 1, 0, 0, 0, 1, 0, 0)>>),
     Public      |-> Arr(<<1, 1>>)]

CircuitC ==
    [NbPublicVariables |-> 0, NbVariables |-> 2,
     Constraints |-> Arr(<<Gate(0, 1, 1, 0, 0, 1, MinusOne, 0)>>),
     Assertions  |-> Arr(<<Gate(0, 0, 0, 1, 0, 0, 0, MinusOne)>>),
     Public      |-> Arr(<<>>)]

Circuits == {CircuitA, CircuitB, CircuitC}

\* The values the transcript's hash gives for the three challenges.
GammaBytes == {3, 95}
AlphaBytes == {5, 0}
ZetaBytes  == {7, 22 + Modulus}

\* spr.Solve(witness): the solution, and an error when a constraint or an
\* assertion does not hold.
RowHolds(g, solution) ==
    Add(Add(Add(Add(Mul(g.ql, solution[g.L]), Mul(g.qr, solution[g.R])),
                Mul(Mul(g.qm, solution[g.L]), solution[g.R])),
            Mul(g.qo, solution[g.O])), g.qk) = 0

SolveHolds(spr, witness) ==
    /\ \A i \in DOMAIN spr.Constraints : RowHolds(spr.Constraints[i], witness)
    /\ \A i \in DOMAIN spr.Assertions : RowHolds(spr.Assertions[i], witness)

-----------------------------------------------------------------------------
(* The hint decomposeScalarG1 (sw_emulated): the function it hands to       *)
(* emulated.UnwrapHint, on the inputs and outputs that function receives.   *)
(* The big.Int values are integers.                                         *)

\* big.Int.Sign with 0 taken as negative
SignZeroNegative(x) == IF x <= 0 THEN -1 ELSE 1

\* big.Int.Sign
Sign(x) == IF x < 0 THEN -1 ELSE IF x = 0 THEN 0 ELSE 1

\* sp is the result of ecc.SplitScalar(inputs[0], glvBasis), for a call that
\* gets that far.  The result is the error, outputs as the call leaves them,
\* and the sp the call computed (nil when it returned before).
decomposeScalarG1(inputs, outputs, sp) ==
    IF Size(inputs) # 3
    THEN [err |-> <<"error", "expecting three inputs">>, outputs |-> outputs,
          sp |-> <<>>]
    ELSE IF Size(outputs) # 6
    THEN [err |-> <<"error", "expecting six outputs">>, outputs |-> outputs,
          sp |-> <<>>]
    ELSE LET o1 == [outputs EXCEPT ![0] = sp[0], ![1] = sp[1]]
             o2 == [o1 EXCEPT ![4] = o1[0], ![5] = o1[1]]
             o3 == [o2 EXCEPT ![2] = 1]
             o4 == IF Sign(o3[0]) = -1
                   THEN [o3 EXCEPT ![0] = 0 - o3[0], ![2] = 0]
                   ELSE o3
             o5 == [o4 EXCEPT ![3] = 1]
             o6 == IF Sign(o5[1]) = -1
                   THEN [o5 EXCEPT ![1] = 0 - o5[1], ![3] = 0]
                   ELSE o5
         IN  [err |-> <<>>, outputs |-> o6, sp |-> sp]

-----------------------------------------------------------------------------
(* ProveRaw as a state machine: pc is the statement about to run. *)

VARIABLES
    spr, publicData, fullWitness,       \* the arguments of ProveRaw
    pc, err, proof,                     \* position, err, *ProofRaw
    solution, solveErr,                 \* the results of spr.Solve; the code drops the second
    ll, lr, lo, partialL, cl, cr, co,   \* the wires
    fs,                                 \* the Fiat-Shamir transcript
    gamma, alpha, zeta,
    z, zu, constraintsInd, constraintsOrdering, startsAtOne,
    h1, h2, h3,
    zzeta,
    trace,                              \* the calls made to the collaborators, with their errors
    helperCall                          \* a helper called on its own: its arguments and results

vars == <<spr, publicData, fullWitness, pc, err, proof, solution, solveErr,
          ll, lr, lo, partialL, cl, cr, co, fs, gamma, alpha, zeta,
          z, zu, constraintsInd, constraintsOrdering, startsAtOne,
          h1, h2, h3, zzeta, trace, helperCall>>

args   == <<spr, publicData, fullWitness>>
solved == <<solution, solveErr>>
wires  == <<ll, lr, lo, partialL, cl, cr, co>>
chals  == <<gamma, alpha, zeta>>
round2 == <<z, zu, constraintsInd, constraintsOrdering, startsAtOne>>
quot   == <<h1, h2, h3>>

\* nil: a nil slice, a nil error, a zero digest
Nil == <<>>

\* helperCall while no helper is called on its own
NoCall == [fn |-> "none", pc |-> "none"]

\* ProveRawSteps with the challenge gamma derived before cO is bound
ProveRawStepsChallengeEarly ==
    <<"Solve", "ComputeLRO", "ToCanonical",
      "CommitL", "CommitR", "CommitO",
      "BindGammaL", "BindGammaR", "ChallengeGamma", "BindGammaO",
      "ComputeZ", "EvalRound2",
      "CommitZ", "BindAlpha", "ChallengeAlpha",
      "ComputeH",
      "CommitH1", "CommitH2", "CommitH3",
      "BindZetaH1", "BindZetaH2", "BindZetaH3", "ChallengeZeta",
      "Evaluate", "BatchOpen", "OpenZShift", "done">>

\* the statements of ProveRaw, in program order
ProveRawSteps ==
    <<"Solve", "ComputeLRO", "ToCanonical",
      "CommitL", "CommitR", "CommitO",
      "BindGammaL", "BindGammaR", "BindGammaO", "ChallengeGamma",
      "ComputeZ", "EvalRound2",
      "CommitZ", "BindAlpha", "ChallengeAlpha",
      "ComputeH",
      "CommitH1", "CommitH2", "CommitH3",
      "BindZetaH1", "BindZetaH2", "BindZetaH3", "ChallengeZeta",
      "Evaluate", "BatchOpen", "OpenZShift", "done">>

\* the statement after `step`
Following(step) ==
    LET k == CHOOSE i \in 1..Len(ProveRawSteps) : ProveRawSteps[i] = step
    IN  ProveRawSteps[k + 1]

\* AfterCall without the return
AfterCallContinue(e, next) == next

\* if err != nil { return proof, err }
AfterCall(e, next) == IF e # Nil THEN "done" ELSE next

\* the error a collaborator gives when `call` fails
ErrOf(call) == <<"error">> \o call

\* CommitmentScheme.Commit(&p): an opaque digest of p
Digest(p) == <<"digest", p>>

\* Digest.Marshal()
Marshal(d) == <<"bytes", d>>

\* fiatshamir.NewTranscript(SHA256, "gamma", "alpha", "zeta")
Labels == <<"gamma", "alpha", "zeta">>

NewTranscript ==
    [bindings |-> [l \in {"gamma", "alpha", "zeta"} |-> <<>>],
     computed |-> {}]

\* Bind refuses a label whose challenge is computed.
BindErrors(t, call, label) ==
    IF label \in t.computed THEN {ErrOf(call)} ELSE {Nil, ErrOf(call)}

\* ComputeChallenge refuses a label whose previous challenge is not computed.
ChallengeErrors(t, call, label) ==
    LET k == CHOOSE i \in 1..3 : Labels[i] = label
    IN  IF k > 1 /\ Labels[k - 1] \notin t.computed
        THEN {ErrOf(call)} ELSE {Nil, ErrOf(call)}

ChallengeBytes(label) ==
    IF label = "gamma" THEN GammaBytes
    ELSE IF label = "alpha" THEN AlphaBytes ELSE ZetaBytes

\* proof := &ProofRaw{}
EmptyProof ==
    [LROZH            |-> [i \in 0..6 |-> 0],
     ZShift           |-> 0,
     CommitmentsLROZH |-> [i \in 0..6 |-> Nil],
     BatchOpenings    |-> Nil,
     OpeningZShift    |-> Nil]

Witnesses(c) == [0..(c.NbVariables - 1) -> 0..MaxVal]

Init ==
    /\ spr \in Circuits
    /\ publicData = SetupRaw(spr, spr.Public)
    /\ fullWitness \in Witnesses(spr)
    /\ pc = "Solve"
    /\ err = Nil
    /\ proof = EmptyProof
    /\ solution = Nil /\ solveErr = Nil
    /\ ll = Nil /\ lr = Nil /\ lo = Nil /\ partialL = Nil
    /\ cl = Nil /\ cr = Nil /\ co = Nil
    /\ fs = NewTranscript
    /\ gamma = 0 /\ alpha = 0 /\ zeta = 0 /\ zzeta = 0
    /\ z = Nil /\ zu = Nil
    /\ constraintsInd = Nil /\ constraintsOrdering = Nil /\ startsAtOne = Nil
    /\ h1 = Nil /\ h2 = Nil /\ h3 = Nil
    /\ trace = <<>>
    /\ helperCall = NoCall

\* solution, _ := spr.Solve(fullWitness).  On an error Solve gives the
\* solution as far as it got, or nil.
Solve ==
    /\ pc = "Solve"
    /\ IF SolveHolds(spr, fullWitness)
       THEN solution' = fullWitness /\ solveErr' = Nil
       ELSE /\ solution' \in {fullWitness, Nil}
            /\ solveErr' = ErrOf(<<"Solve">>)
    /\ pc' = Following("Solve")
    /\ UNCHANGED <<helperCall, args, err, proof, wires, fs, chals, round2, quot, zzeta, trace>>

\* ComputeLRO indexes a nil solution: the run panics.
ComputeLROPanic ==
    /\ pc = "ComputeLRO"
    /\ solution = Nil
    /\ pc' = "panic"
    /\ UNCHANGED <<helperCall, args, err, proof, solved, wires, fs, chals, round2, quot, zzeta, trace>>

\* ll, lr, lo, partialL := ComputeLRO(spr, publicData, solution)
ComputeLROStep ==
    /\ pc = "ComputeLRO"
    /\ solution # Nil
    /\ LET w == ComputeLRO(spr, publicData, solution)
       IN  ll' = w.l /\ lr' = w.r /\ lo' = w.o /\ partialL' = w.partialL
    /\ pc' = Following("ComputeLRO")
    /\ UNCHANGED <<helperCall, args, err, proof, solved, cl, cr, co, fs, chals, round2, quot,
                   zzeta, trace>>

\* cl, cr, co: copies of ll, lr, lo put in canonical form; partialL is put in
\* canonical form in place.
ToCanonical ==
    /\ pc = "ToCanonical"
    /\ LET d == publicData.DomainNum
       IN  /\ cl' = BitReverse(FFTInverse(d, CopyInto(Size(ll), ll), 0))
           /\ cr' = BitReverse(FFTInverse(d, CopyInto(Size(lr), lr), 0))
           /\ co' = BitReverse(FFTInverse(d, CopyInto(Size(lo), lo), 0))
           /\ partialL' = BitReverse(FFTInverse(d, partialL, 0))
    /\ pc' = Following("ToCanonical")
    /\ UNCHANGED <<helperCall, args, err, proof, solved, ll, lr, lo, fs, chals, round2, quot,
                   zzeta, trace>>

\* proof.CommitmentsLROZH[idx], err = publicData.CommitmentScheme.Commit(&p)
CommitCall(step, idx, p) ==
    /\ pc = step
    /\ \E e \in {Nil, ErrOf(<<"Commit", idx>>)} :
          /\ proof' = [proof EXCEPT !.CommitmentsLROZH[idx] =
                                       IF e = Nil THEN Digest(p) ELSE Nil]
          /\ trace' = Append(trace, [call |-> <<"Commit", idx>>, err |-> e])
          /\ err' = e
          /\ pc' = AfterCall(e, Following(step))
    /\ UNCHANGED <<helperCall, args, solved, wires, fs, chals, round2, quot, zzeta>>

\* err = fs.Bind(label, proof.CommitmentsLROZH[idx].Marshal())
BindCall(step, label, idx) ==
    /\ pc = step
    /\ \E e \in BindErrors(fs, <<"Bind", label, idx>>, label) :
          /\ fs' = IF e = Nil
                   THEN [fs EXCEPT !.bindings[label] =
                            Append(@, Marshal(proof.CommitmentsLROZH[idx]))]
                   ELSE fs
          /\ trace' = Append(trace, [call |-> <<"Bind", label, idx>>, err |-> e])
          /\ err' = e
          /\ pc' = AfterCall(e, Following(step))
    /\ UNCHANGED <<helperCall, args, proof, solved, wires, chals, round2, quot, zzeta>>

\* b, err := fs.ComputeChallenge(label); the challenge is SetBytes(b)
ChallengeCall(step, label) ==
    /\ pc = step
    /\ \E e \in ChallengeErrors(fs, <<"ComputeChallenge", label>>, label) :
          /\ trace' = Append(trace, [call |-> <<"ComputeChallenge", label>>, err |-> e])
          /\ err' = e
          /\ pc' = AfterCall(e, Following(step))
          /\ IF e = Nil
             THEN /\ fs' = [fs EXCEPT !.computed = @ \cup {label}]
                  /\ \E b \in ChallengeBytes(label) :
                        /\ gamma' = IF label = "gamma" THEN SetBytes(b) ELSE gamma
                        /\ alpha' = IF label = "alpha" THEN SetBytes(b) ELSE alpha
                        /\ zeta'  = IF label = "zeta" THEN SetBytes(b) ELSE zeta
             ELSE UNCHANGED <<fs, chals>>
    /\ UNCHANGED <<helperCall, args, proof, solved, wires, round2, quot, zzeta>>

CommitL == CommitCall("CommitL", 0, cl)
CommitR == CommitCall("CommitR", 1, cr)
CommitO == CommitCall("CommitO", 2, co)
BindGammaL == BindCall("BindGammaL", "gamma", 0)
BindGammaR == BindCall("BindGammaR", "gamma", 1)
BindGammaO == BindCall("BindGammaO", "gamma", 2)
ChallengeGamma == ChallengeCall("ChallengeGamma", "gamma")

\* z := ComputeZ(ll, lr, lo, publicData, gamma); zu := shiftZ(z)
ComputeZStep ==
    /\ pc = "ComputeZ"
    /\ LET s == shiftZ(ComputeZ(ll, lr, lo, publicData, gamma))
       IN  z' = s.z /\ zu' = s.res
    /\ pc' = Following("ComputeZ")
    /\ UNCHANGED <<helperCall, args, err, proof, solved, wires, fs, chals,
                   constraintsInd, constraintsOrdering, startsAtOne, quot, zzeta, trace>>

\* the coset evaluations of the wires, the gate term, z and zu put in
\* canonical form in place, the permutation term and L1 (z - 1)
EvalRound2 ==
    /\ pc = "EvalRound2"
    /\ LET d      == publicData.DomainNum
           evalL  == evaluateCosets(cl, d)
           evalR  == evaluateCosets(cr, d)
           evalO  == evaluateCosets(co, d)
           ind    == evalConstraints(publicData, evalL.res, evalR.res, evalO.res)
           zc     == BitReverse(FFTInverse(d, z, 0))
           zuc    == BitReverse(FFTInverse(d, zu, 0))
           evalZ  == evaluateCosets(zc, d)
           evalZu == evaluateCosets(zuc, d)
           ord    == evalConstraintOrdering(ind.publicData, evalZ.res, evalZu.res,
                                            evalL.res, evalR.res, evalO.res, gamma)
       IN  /\ cl' = evalL.poly /\ cr' = evalR.poly /\ co' = evalO.poly
           /\ constraintsInd' = ind.res
           /\ z' = evalZ.poly /\ zu' = evalZu.poly
           /\ constraintsOrdering' = ord.res
           /\ publicData' = ord.publicData
           /\ startsAtOne' = evalStartsAtOne(ord.publicData, evalZ.res)
    /\ pc' = Following("EvalRound2")
    /\ UNCHANGED <<helperCall, spr, fullWitness, err, proof, solved, ll, lr, lo, partialL,
                   fs, chals, quot, zzeta, trace>>

CommitZ == CommitCall("CommitZ", 3, z)
BindAlpha == BindCall("BindAlpha", "alpha", 3)
ChallengeAlpha == ChallengeCall("ChallengeAlpha", "alpha")

\* h1, h2, h3 := computeH(...)
ComputeHStep ==
    /\ pc = "ComputeH"
    /\ LET h == computeH(publicData, constraintsInd, constraintsOrdering,
                         startsAtOne, alpha)
       IN  h1' = h.h1 /\ h2' = h.h2 /\ h3' = h.h3
    /\ pc' = Following("ComputeH")
    /\ UNCHANGED <<helperCall, args, err, proof, solved, wires, fs, chals, round2, zzeta, trace>>

CommitH1 == CommitCall("CommitH1", 4, h1)
CommitH2 == CommitCall("CommitH2", 5, h2)
CommitH3 == CommitCall("CommitH3", 6, h3)
BindZetaH1 == BindCall("BindZetaH1", "zeta", 4)
BindZetaH2 == BindCall("BindZetaH2", "zeta", 5)
BindZetaH3 == BindCall("BindZetaH3", "zeta", 6)
ChallengeZeta == ChallengeCall("ChallengeZeta", "zeta")

\* the evaluations at zeta and at zeta times the generator
Evaluate ==
    /\ pc = "Evaluate"
    /\ zzeta' = Mul(zeta, publicData.DomainNum.Generator)
    /\ proof' = [proof EXCEPT
                   !.LROZH = [i \in 0..6 |->
                                CASE i = 0 -> Eval(partialL, zeta)
                                  [] i = 1 -> Eval(cr, zeta)
                                  [] i = 2 -> Eval(co, zeta)
                                  [] i = 3 -> Eval(z, zeta)
                                  [] i = 4 -> Eval(h1, zeta)
                                  [] i = 5 -> Eval(h2, zeta)
                                  [] i = 6 -> Eval(h3, zeta)],
                   !.ZShift = Eval(z, zzeta')]
    /\ pc' = Following("Evaluate")
    /\ UNCHANGED <<helperCall, args, err, solved, wires, fs, chals, round2, quot, trace>>

\* CommitmentScheme.BatchOpenSinglePoint(&point, digests, polys): opaque
BatchOpening(point, digests, polys) ==
    [point |-> point, digests |-> digests, polys |-> polys]

\* CommitmentScheme.Open(&point, &p): opaque
Opening(point, p) == [point |-> point, poly |-> p]

\* polynomialsToOpenAtZeta in the order L, R, O, H, Z
PolynomialsToOpenAtZetaLROHZ == [i \in 0..6 |->
    CASE i = 0 -> cl [] i = 1 -> cr [] i = 2 -> co [] i = 3 -> h1
      [] i = 4 -> h2 [] i = 5 -> h3 [] i = 6 -> z]

\* polynomialsToOpenAtZeta
PolynomialsToOpenAtZeta == [i \in 0..6 |->
    CASE i = 0 -> cl [] i = 1 -> cr [] i = 2 -> co [] i = 3 -> z
      [] i = 4 -> h1 [] i = 5 -> h2 [] i = 6 -> h3]

BatchOpen ==
    /\ pc = "BatchOpen"
    /\ \E e \in {Nil, ErrOf(<<"BatchOpenSinglePoint">>)} :
          /\ proof' = [proof EXCEPT !.BatchOpenings =
                          IF e = Nil
                          THEN BatchOpening(zeta, proof.CommitmentsLROZH,
                                            PolynomialsToOpenAtZeta)
                          ELSE Nil]
          /\ trace' = Append(trace, [call |-> <<"BatchOpenSinglePoint">>, err |-> e])
          /\ err' = e
          /\ pc' = AfterCall(e, Following("BatchOpen"))
    /\ UNCHANGED <<helperCall, args, solved, wires, fs, chals, round2, quot, zzeta>>

OpenZShift ==
    /\ pc = "OpenZShift"
    /\ \E e \in {Nil, ErrOf(<<"Open">>)} :
          /\ proof' = [proof EXCEPT !.OpeningZShift =
                          IF e = Nil THEN Opening(zzeta, z) ELSE Nil]
          /\ trace' = Append(trace, [call |-> <<"Open">>, err |-> e])
          /\ err' = e
          /\ pc' = AfterCall(e, Following("OpenZShift"))
    /\ UNCHANGED <<helperCall, args, solved, wires, fs, chals, round2, quot, zzeta>>

Next ==
    \/ Solve \/ ComputeLROPanic \/ ComputeLROStep \/ ToCanonical
    \/ CommitL \/ CommitR \/ CommitO
    \/ BindGammaL \/ BindGammaR \/ BindGammaO \/ ChallengeGamma
    \/ ComputeZStep \/ EvalRound2
    \/ CommitZ \/ BindAlpha \/ ChallengeAlpha
    \/ ComputeHStep
    \/ CommitH1 \/ CommitH2 \/ CommitH3
    \/ BindZetaH1 \/ BindZetaH2 \/ BindZetaH3 \/ ChallengeZeta
    \/ Evaluate \/ BatchOpen \/ OpenZShift

Spec == Init /\ [][Next]_vars

-----------------------------------------------------------------------------
(* The helpers called on their own.  helperCall holds the arguments of one  *)
(* call, then what the call leaves in them and returns; no ProveRaw runs.   *)

\* The largest coefficient, vector entry or hint input drawn, beside -1.
MaxElem == 2

\* The largest absolute value of a component of the scalar split drawn.
MaxSplit == 2

\* the coefficients and vector entries drawn
Elements == 0..MaxElem \cup {Modulus - 1}

\* the cardinalities of the domains drawn: the powers of two up to DomainSize
Cardinalities == {m \in 1..DomainSize : 2 ^ Log2(m) = m}

proving == <<args, pc, err, proof, solved, wires, fs, chals, round2, quot,
             zzeta, trace>>

\* no ProveRaw in progress
NotProving ==
    /\ spr = Nil /\ publicData = Nil /\ fullWitness = Nil
    /\ pc = "none" /\ err = Nil /\ proof = Nil
    /\ solution = Nil /\ solveErr = Nil
    /\ ll = Nil /\ lr = Nil /\ lo = Nil /\ partialL = Nil
    /\ cl = Nil /\ cr = Nil /\ co = Nil
    /\ fs = Nil
    /\ gamma = 0 /\ alpha = 0 /\ zeta = 0 /\ zzeta = 0
    /\ z = Nil /\ zu = Nil
    /\ constraintsInd = Nil /\ constraintsOrdering = Nil /\ startsAtOne = Nil
    /\ h1 = Nil /\ h2 = Nil /\ h3 = Nil
    /\ trace = <<>>

\* evaluateCosets(poly, res, domain), res made with 4 * Cardinality zeros
EvaluateCosetsCalls ==
    UNION {{[fn     |-> "evaluateCosets", pc |-> "call",
             poly   |-> poly,
             res    |-> [k \in 0..(4 * m - 1) |-> 0],
             domain |-> NewDomain(m, 3)] : poly \in [0..(m - 1) -> Elements]} :
           m \in Cardinalities}

\* shiftZ(z), z of up to DomainSize entries; zs is z, then the result of each
\* call, the next call taking the last result
ShiftZCalls ==
    UNION {{[fn |-> "shiftZ", pc |-> "call", zs |-> <<v>>] :
              v \in [0..(n - 1) -> Elements]} : n \in 0..DomainSize}

\* decomposeScalarG1 on 2 to 4 inputs and 5 to 7 outputs, the outputs zero
DecomposeScalarG1Calls ==
    UNION {{[fn      |-> "decomposeScalarG1", pc |-> "call",
             inputs  |-> inputs,
             outputs |-> [k \in 0..(no - 1) |-> 0],
             sp      |-> Nil,
             err     |-> Nil] :
              inputs \in [0..(ni - 1) -> 0..MaxElem], no \in 5..7} : ni \in 2..4}

\* what ecc.SplitScalar may return: two signed integers
SplitScalarResults == [0..1 -> (0 - MaxSplit)..MaxSplit]

HelperCalls == EvaluateCosetsCalls \cup ShiftZCalls \cup DecomposeScalarG1Calls

HelperInit ==
    /\ helperCall \in HelperCalls
    /\ NotProving

CallEvaluateCosets ==
    /\ helperCall.fn = "evaluateCosets" /\ helperCall.pc = "call"
    /\ LET r == evaluateCosets(helperCall.poly, helperCall.domain)
       IN  helperCall' = [helperCall EXCEPT !.res = r.res, !.poly = r.poly,
                                            !.pc = "return"]
    /\ UNCHANGED proving

\* res[0] of an empty copy: index out of range
CallShiftZPanic ==
    /\ helperCall.fn = "shiftZ" /\ helperCall.pc = "call"
    /\ Size(helperCall.zs[Len(helperCall.zs)]) = 0
    /\ helperCall' = [helperCall EXCEPT !.pc = "panic"]
    /\ UNCHANGED proving

\* shiftZ on the last vector of zs; calls go on until there are as many as
\* the vector has entries
CallShiftZ ==
    /\ helperCall.fn = "shiftZ" /\ helperCall.pc = "call"
    /\ LET k == Len(helperCall.zs)
           s == shiftZ(helperCall.zs[k])
       IN  /\ Size(helperCall.zs[k]) > 0
           /\ helperCall' = [helperCall EXCEPT
                                !.zs = Append([@ EXCEPT ![k] = s.z], s.res),
                                !.pc = IF k = Size(s.res) THEN "return" ELSE "call"]
    /\ UNCHANGED proving

CallDecomposeScalarG1 ==
    /\ helperCall.fn = "decomposeScalarG1" /\ helperCall.pc = "call"
    /\ \E sp \in SplitScalarResults :
          LET r == decomposeScalarG1(helperCall.inputs, helperCall.outputs, sp)
          IN  helperCall' = [helperCall EXCEPT !.outputs = r.outputs,
                                               !.sp = r.sp, !.err = r.err,
                                               !.pc = "return"]
    /\ UNCHANGED proving

HelperNext ==
    \/ CallEvaluateCosets
    \/ CallShiftZPanic
    \/ CallShiftZ
    \/ CallDecomposeScalarG1

SpecHelpers == HelperInit /\ [][HelperNext]_vars

-----------------------------------------------------------------------------
(* The claims *)

\* the calls of the trace, without their errors
Calls == [k \in 1..Len(trace) |-> trace[k].call]

IsPrefix(a, b) ==
    /\ Len(a) <= Len(b)
    /\ \A k \in 1..Len(a) : a[k] = b[k]

\* the order of the commits, binds and challenge derivations
TranscriptOrder ==
    << <<"Commit", 0>>, <<"Commit", 1>>, <<"Commit", 2>>,
       <<"Bind", "gamma", 0>>, <<"Bind", "gamma", 1>>, <<"Bind", "gamma", 2>>,
       <<"ComputeChallenge", "gamma">>,
       <<"Commit", 3>>, <<"Bind", "alpha", 3>>, <<"ComputeChallenge", "alpha">>,
       <<"Commit", 4>>, <<"Commit", 5>>, <<"Commit", 6>>,
       <<"Bind", "zeta", 4>>, <<"Bind", "zeta", 5>>, <<"Bind", "zeta", 6>>,
       <<"ComputeChallenge", "zeta">> >>

AllCalls == TranscriptOrder \o << <<"BatchOpenSinglePoint">>, <<"Open">> >>

\* what a label is bound to: the marshalled commitments, in order
BoundTo(label) ==
    LET idx == IF label = "gamma" THEN <<0, 1, 2>>
               ELSE IF label = "alpha" THEN <<3>> ELSE <<4, 5, 6>>
    IN  [k \in 1..Len(idx) |-> Marshal(proof.CommitmentsLROZH[idx[k]])]

\* C1: the commits, binds and challenge derivations of a run are made in the
\* one fixed order Commit(cL), Commit(cR), Commit(cO), Bind gamma x3,
\* ComputeChallenge(gamma), Commit(Z), Bind alpha, ComputeChallenge(alpha),
\* Commit(H1..H3), Bind zeta x3, ComputeChallenge(zeta); a label's challenge is
\* computed only when the label holds every commitment bound to it, in order,
\* and nothing is bound to it afterwards.
C1_ChallengeAfterBinds ==
    /\ IsPrefix(SelectSeq(Calls, LAMBDA c : c[1] \in {"Commit", "Bind", "ComputeChallenge"}),
                TranscriptOrder)
    /\ \A label \in {"gamma", "alpha", "zeta"} :
          /\ IsPrefix(fs.bindings[label], BoundTo(label))
          /\ label \in fs.computed =>
                /\ fs.bindings[label] = BoundTo(label)
                /\ \A k \in 1..Len(BoundTo(label)) : BoundTo(label)[k] # Marshal(Nil)

C1_Witness ==
    /\ pc = "done" /\ err = Nil
    /\ fs.computed = {"gamma", "alpha", "zeta"}
    /\ Len(fs.bindings["zeta"]) = 3

\* C2: a failed call to a collaborator is the last call of the run, and the run
\* returns its error with the proof as it stands (the commitments made so
\* far, no more); a run that returns nil made all nineteen calls without error.
C2_FirstErrorReturned ==
    /\ \A k \in 1..Len(trace) :
          trace[k].err # Nil =>
             /\ k = Len(trace)
             /\ pc = "done"
             /\ err = trace[k].err
    /\ err # Nil => pc = "done" /\ trace # <<>> /\ trace[Len(trace)].err = err
    /\ \A i \in 0..6 :
          proof.CommitmentsLROZH[i] # Nil <=>
             \E k \in 1..Len(trace) :
                trace[k].call = <<"Commit", i>> /\ trace[k].err = Nil
    /\ (pc = "done" /\ err = Nil) =>
          /\ Calls = AllCalls
          /\ \A k \in 1..Len(trace) : trace[k].err = Nil

C2_Witness ==
    /\ pc = "done"
    /\ err = ErrOf(<<"Bind", "alpha", 3>>)
    /\ proof.CommitmentsLROZH[3] # Nil
    /\ proof.CommitmentsLROZH[4] = Nil

\* C3: when Solve gives an error, the run returns that error and calls no
\* collaborator (no commit, no bind, no opening).
C3_SolveErrorReturned ==
    solveErr # Nil =>
       /\ trace = <<>>
       /\ pc = "done" => err = solveErr

\* a denominator factor of ComputeZ is zero on some row of [0, m-1)
ZeroDenominator ==
    /\ "gamma" \in fs.computed
    /\ \E i \in 0..(publicData.DomainNum.Cardinality - 2) :
          \/ Add(Add(ll[i], publicData.LS1[i]), gamma) = 0
          \/ Add(Add(lr[i], publicData.LS2[i]), gamma) = 0
          \/ Add(Add(lo[i], publicData.LS3[i]), gamma) = 0

\* C4: when a denominator factor is zero on a row of [0, m-1), ComputeZ gives
\* an error and no Z, and the run ends with that error: Z is never committed.
C4_ZeroDenominatorFails ==
    ZeroDenominator =>
       /\ pc \in {"ComputeZ", "done"}
       /\ pc = "done" => err # Nil
       /\ z = Nil
       /\ \A k \in 1..Len(trace) : trace[k].call # <<"Commit", 3>>

\* the polynomial committed in CommitmentsLROZH[i]
Committed(i) == proof.CommitmentsLROZH[i][2]

RECURSIVE FieldSum(_, _)
FieldSum(f, n) == IF n = 0 THEN 0 ELSE Add(f[n - 1], FieldSum(f, n - 1))

RECURSIVE FieldProduct(_, _)
FieldProduct(f, n) == IF n = 0 THEN 1 ELSE Mul(f[n - 1], FieldProduct(f, n - 1))

Omega == publicData.DomainNum.Generator

\* L_i(x), the i-th Lagrange basis polynomial of domain_num, as a product
LagrangeBasis(i, x) ==
    LET m == publicData.DomainNum.Cardinality
    IN  FieldProduct([j \in 0..(m - 1) |->
                        IF j = i THEN 1
                        ELSE Div(Sub(x, Exp(Omega, j)),
                                 Sub(Exp(Omega, i), Exp(Omega, j)))], m)

\* p, in canonical form, takes the values lag on the domain
Interpolates(p, lag) ==
    /\ Size(p) = publicData.DomainNum.Cardinality
    /\ DOMAIN lag = DOMAIN p
    /\ \A i \in DOMAIN lag : Eval(p, Exp(Omega, i)) = lag[i]

\* C5: on success the seven commitments are those of cL, cR, cO, Z, H1, H2, H3
\* in that order, the batch opening is at zeta over these polynomials in the
\* same order against these commitments, LROZH[1..6] are their values at zeta,
\* LROZH[0] is the value at zeta of partial_cL (L without the public rows), and
\* ZShift and OpeningZShift are the value and the opening of the committed Z at
\* zeta times the generator.
C5_ProofLayout ==
    (pc = "done" /\ err = Nil) =>
       /\ Interpolates(Committed(0), ll)
       /\ Interpolates(Committed(1), lr)
       /\ Interpolates(Committed(2), lo)
       /\ Interpolates(Committed(3), ComputeZ(ll, lr, lo, publicData, gamma))
       /\ Committed(4) = h1 /\ Committed(5) = h2 /\ Committed(6) = h3
       /\ proof.BatchOpenings.point = zeta
       /\ proof.BatchOpenings.digests = proof.CommitmentsLROZH
       /\ proof.BatchOpenings.polys = [i \in 0..6 |-> Committed(i)]
       /\ \A i \in 1..6 : proof.LROZH[i] = Eval(Committed(i), zeta)
       /\ proof.LROZH[0] =
             FieldSum([i \in 0..(DomainSize - 1) |->
                         IF i < spr.NbPublicVariables THEN 0
                         ELSE Mul(ll[i], LagrangeBasis(i, zeta))], DomainSize)
       /\ proof.ZShift = Eval(Committed(3), Mul(zeta, Omega))
       /\ proof.OpeningZShift = Opening(Mul(zeta, Omega), Committed(3))

C5_Witness ==
    /\ pc = "done" /\ err = Nil
    /\ proof.LROZH[0] # Eval(Committed(0), zeta)
    /\ spr.NbPublicVariables = 2

\* C6: ComputeLRO gives four vectors of length m with, on a placeholder row i,
\* L[i] = solution[i], R[i] = O[i] = solution[0], partial_L[i] = 0; on a
\* constraint or assertion row, the solution at the row's L, R, O wires and
\* partial_L[i] = L[i]; on a padding row, all four solution[0].
C6_ComputeLRORows ==
    pc = "ToCanonical" =>
       LET m    == publicData.DomainNum.Cardinality
           nPub == spr.NbPublicVariables
           nC   == Size(spr.Constraints)
           nA   == Size(spr.Assertions)
       IN  /\ nPub + nC + nA <= m
           /\ \A v \in {ll, lr, lo, partialL} : DOMAIN v = 0..(m - 1)
           /\ \A i \in 0..(nPub - 1) :
                 /\ ll[i] = solution[i]
                 /\ lr[i] = solution[0] /\ lo[i] = solution[0]
                 /\ partialL[i] = 0
           /\ \A i \in 0..(nC - 1) :
                 /\ ll[nPub + i] = solution[spr.Constraints[i].L]
                 /\ lr[nPub + i] = solution[spr.Constraints[i].R]
                 /\ lo[nPub + i] = solution[spr.Constraints[i].O]
                 /\ partialL[nPub + i] = ll[nPub + i]
           /\ \A i \in 0..(nA - 1) :
                 /\ ll[nPub + nC + i] = solution[spr.Assertions[i].L]
                 /\ lr[nPub + nC + i] = solution[spr.Assertions[i].R]
                 /\ lo[nPub + nC + i] = solution[spr.Assertions[i].O]
                 /\ partialL[nPub + nC + i] = ll[nPub + nC + i]
           /\ \A i \in (nPub + nC + nA)..(m - 1) :
                 /\ ll[i] = solution[0] /\ lr[i] = solution[0]
                 /\ lo[i] = solution[0] /\ partialL[i] = solution[0]
           /\ \A i \in 0..(m - 1) : partialL[i] # ll[i] => i < nPub /\ partialL[i] = 0

C6_Witness ==
    /\ pc = "ToCanonical"
    /\ spr.NbPublicVariables = 1
    /\ 1 + Size(spr.Constraints) + Size(spr.Assertions) < DomainSize
    /\ partialL[0] # ll[0]
    /\ ll[1] # ll[2]

\* C7: with no zero denominator, ComputeZ gives Z of length m with Z[0] = 1 and
\* Z[i+1] (L[i]+LS1[i]+gamma)(R[i]+LS2[i]+gamma)(O[i]+LS3[i]+gamma)
\*   = Z[i] (L[i]+w^i+gamma)(R[i]+k1 w^i+gamma)(O[i]+k2 w^i+gamma) on [0, m-1);
\* the running powers at step i are w^i, k1 w^i, k2 w^i.
C7_AccumulatorRelation ==
    (pc = "EvalRound2" /\ ~ZeroDenominator) =>
       LET m  == publicData.DomainNum.Cardinality
           k1 == publicData.Shifter[0]
           k2 == publicData.Shifter[1]
       IN  /\ DOMAIN z = 0..(m - 1)
           /\ z[0] = 1
           /\ \A i \in 0..(m - 2) :
                 LET wi == Exp(Omega, i)
                 IN  /\ RunningPowers(publicData, i) = <<wi, Mul(k1, wi), Mul(k2, wi)>>
                     /\ Mul(z[i + 1],
                            Mul(Mul(Add(Add(ll[i], publicData.LS1[i]), gamma),
                                    Add(Add(lr[i], publicData.LS2[i]), gamma)),
                                Add(Add(lo[i], publicData.LS3[i]), gamma)))
                        = Mul(z[i],
                              Mul(Mul(Add(Add(ll[i], wi), gamma),
                                      Add(Add(lr[i], Mul(k1, wi)), gamma)),
                                  Add(Add(lo[i], Mul(k2, wi)), gamma)))

C7_Witness ==
    /\ pc = "EvalRound2" /\ ~ZeroDenominator
    /\ z[1] # 1 /\ z[2] # z[1] /\ z[3] # z[2] /\ z[3] # 0

\* C8: the reported LROZH[0] plus the public-input contribution
\* sum_{i < NbPublicVariables} solution[i] L_i(zeta) is the value at zeta of
\* the committed cL.
C8_PublicInputIdentity ==
    (pc \in {"BatchOpen", "OpenZShift"} \/ (pc = "done" /\ "zeta" \in fs.computed)) =>
       Add(proof.LROZH[0],
           FieldSum([i \in 0..(DomainSize - 1) |->
                       IF i < spr.NbPublicVariables
                       THEN Mul(solution[i], LagrangeBasis(i, zeta)) ELSE 0],
                    DomainSize))
       = Eval(Committed(0), zeta)

C8_Witness ==
    /\ pc = "done" /\ err = Nil
    /\ spr.NbPublicVariables = 2
    /\ solution[0] # 0 /\ solution[1] # 0
    /\ proof.LROZH[0] # Eval(Committed(0), zeta)
    /\ zeta \notin {Exp(Omega, i) : i \in 0..(DomainSize - 1)}

\* C9: no step of a prove call changes the public data.
C9_PublicDataUnchanged == [][publicData' = publicData]_vars

C9_Witness ==
    /\ pc = "done" /\ err = Nil
    /\ publicData = SetupRaw(spr, spr.Public)

\* the witness satisfies the circuit: every row of the gate holds on the
\* domain, with the selectors of the public data
SatisfiesCircuit ==
    /\ solveErr = Nil
    /\ \A i \in 0..(DomainSize - 1) :
          LET x == Exp(Omega, i)
          IN  Add(Add(Add(Add(Mul(Eval(publicData.Ql, x), ll[i]),
                              Mul(Eval(publicData.Qr, x), lr[i])),
                          Mul(Mul(Eval(publicData.Qm, x), ll[i]), lr[i])),
                      Mul(Eval(publicData.Qo, x), lo[i])),
                  Eval(publicData.Qk, x)) = 0

\* the extended-domain point of index k = 4 i + j: nu^(2j+1) w^i
ExtendedPoint(k) ==
    Mul(Exp(publicData.DomainNum.FinerGenerator, 2 * (k % 4) + 1),
        Exp(Omega, k \div 4))

\* the quotient identity at the extended-domain point of index k
QuotientIdentityAt(k) ==
    LET x  == ExtendedPoint(k)
        m  == publicData.DomainNum.Cardinality
        xm == Exp(x, m)
    IN  Add(Add(constraintsInd[k], Mul(alpha, constraintsOrdering[k])),
            Mul(Mul(alpha, alpha), startsAtOne[k]))
        = Mul(Add(Add(Eval(h1, x), Mul(xm, Eval(h2, x))),
                  Mul(Mul(xm, xm), Eval(h3, x))),
              Sub(xm, 1))

\* computeH has returned
QuotientComputed == h1 # Nil

\* C10: for a witness that satisfies the circuit, H1, H2, H3 satisfy the
\* quotient identity at each of the 4m extended-domain points.
C10_QuotientIdentity ==
    (QuotientComputed /\ SatisfiesCircuit) =>
       \A k \in 0..(4 * DomainSize - 1) : QuotientIdentityAt(k)

\* C10 where ComputeZ met no zero denominator
C10_QuotientIdentityNonZero ==
    (QuotientComputed /\ SatisfiesCircuit /\ ~ZeroDenominator) =>
       \A k \in 0..(4 * DomainSize - 1) : QuotientIdentityAt(k)

\* the identity fails for a witness that does not satisfy the circuit
C10_Sanity ==
    (QuotientComputed /\ ~SatisfiesCircuit) =>
       \E k \in 0..(4 * DomainSize - 1) : ~QuotientIdentityAt(k)


\* the point of res[k]: FinerGenerator^(2 j + 1) Generator^i, k = 4 i + j
CosetPoint(domain, i, j) ==
    Mul(Exp(domain.FinerGenerator, 2 * j + 1), Exp(domain.Generator, i))

\* C11: evaluateCosets, on a canonical polynomial p of length m and a domain
\* of cardinality m with generator w and finer generator nu, fills res
\* (length 4m) with res[4i+j] = the Horner evaluation of p at
\* nu^(2j+1) w^i, for every i < m and j < 4, and leaves p as it was.
C11_CosetEvaluations ==
    [][(helperCall.fn = "evaluateCosets" /\ helperCall.pc = "call"
        /\ helperCall'.pc = "return")
       => LET p == helperCall.poly
              d == helperCall.domain
              m == d.Cardinality
          IN  /\ DOMAIN helperCall'.res = 0..(4 * m - 1)
              /\ \A i \in 0..(m - 1), j \in 0..3 :
                    helperCall'.res[4 * i + j] = Eval(p, CosetPoint(d, i, j))
              /\ helperCall'.poly = p]_vars

\* evaluateCosets has returned on a polynomial of degree m - 1, m the largest
\* cardinality, and res takes more than m values
C11_Witness ==
    /\ helperCall.fn = "evaluateCosets" /\ helperCall.pc = "return"
    /\ helperCall.domain.Cardinality = DomainSize
    /\ helperCall.poly[DomainSize - 1] # 0
    /\ helperCall.poly[1] # 0
    /\ Cardinality({helperCall.res[k] : k \in DOMAIN helperCall.res}) > DomainSize

\* C12: shiftZ, on a non-empty vector z of length m, returns a new vector z'
\* of the same length with z'[i] = z[(i+1) mod m] for every i < m (so
\* z'[m-1] = z[0]) and leaves z as it was; m calls in a row, each on the
\* result of the one before, give the first vector back.
C12_CyclicShift ==
    [][(helperCall.fn = "shiftZ" /\ helperCall.pc = "call"
        /\ helperCall'.pc # "panic")
       => LET k   == Len(helperCall.zs)
              arg == helperCall.zs[k]
              m   == Size(arg)
              res == helperCall'.zs[k + 1]
          IN  /\ m > 0
              /\ Len(helperCall'.zs) = k + 1
              /\ DOMAIN res = 0..(m - 1)
              /\ \A i \in 0..(m - 1) : res[i] = arg[(i + 1) % m]
              /\ res[m - 1] = arg[0]
              /\ \A n \in 1..k : helperCall'.zs[n] = helperCall.zs[n]
              /\ (k = m => res = helperCall.zs[1])]_vars

\* DomainSize calls have been made from a vector of DomainSize entries whose
\* first and last entries differ
C12_Witness ==
    /\ helperCall.fn = "shiftZ" /\ helperCall.pc = "return"
    /\ Len(helperCall.zs) = DomainSize + 1
    /\ Size(helperCall.zs[1]) = DomainSize
    /\ helperCall.zs[1][0] # helperCall.zs[1][DomainSize - 1]
    /\ helperCall.zs[2] # helperCall.zs[1]

\* the absolute value of an integer
Abs(x) == IF x < 0 THEN 0 - x ELSE x

\* C13: decomposeScalarG1, called with exactly 3 inputs and 6 outputs, the
\* scalar split giving the signed pair (s0, s1), returns no error and leaves
\* outputs[4] = s0, outputs[5] = s1, outputs[0] = |s0|, outputs[1] = |s1|,
\* outputs[2] = 0 if s0 < 0 and 1 otherwise, outputs[3] = 0 if s1 < 0 and 1
\* otherwise (a zero component has flag 1); so outputs[4+k] is outputs[k]
\* when outputs[2+k] = 1 and -outputs[k] when outputs[2+k] = 0.
C13_SignedDecomposition ==
    (helperCall.fn = "decomposeScalarG1" /\ helperCall.pc = "return"
     /\ Size(helperCall.inputs) = 3 /\ Size(helperCall.outputs) = 6)
    => LET o  == helperCall.outputs
           s0 == helperCall.sp[0]
           s1 == helperCall.sp[1]
       IN  /\ helperCall.err = Nil
           /\ helperCall.sp \in SplitScalarResults
           /\ o[4] = s0 /\ o[5] = s1
           /\ o[0] = Abs(s0) /\ o[1] = Abs(s1)
           /\ o[0] >= 0 /\ o[1] >= 0
           /\ o[2] = (IF s0 < 0 THEN 0 ELSE 1)
           /\ o[3] = (IF s1 < 0 THEN 0 ELSE 1)
           /\ \A k \in 0..1 :
                 /\ o[2 + k] \in {0, 1}
                 /\ o[2 + k] = 1 => o[4 + k] = o[k]
                 /\ o[2 + k] = 0 => o[4 + k] = 0 - o[k]

\* the call has returned on 3 inputs and 6 outputs with s0 = 0 and s1 < 0
C13_Witness ==
    /\ helperCall.fn = "decomposeScalarG1" /\ helperCall.pc = "return"
    /\ Size(helperCall.inputs) = 3 /\ Size(helperCall.outputs) = 6
    /\ helperCall.sp \in SplitScalarResults
    /\ helperCall.sp[0] = 0 /\ helperCall.sp[1] < 0
    /\ helperCall.outputs[2] = 1 /\ helperCall.outputs[3] = 0
    /\ helperCall.outputs[1] > 0

=============================================================================
